---- MODULE Spec2Model ----
(***************************************************************************)
(* State-machine model of spike/single_subject_pipeline.py:                *)
(* do_subject_preproc, its joblib.Memory cache and the files it writes,    *)
(* for two successive invocations on the same subject (the driver at the   *)
(* bottom of the file runs its pipelines one after the other, n_jobs=1).   *)
(*                                                                         *)
(* Abstractions.  A path is <<directory, prefix, base>>: directory a       *)
(* sequence of path components, prefix the sequence of one-letter prefixes *)
(* stages put in front of a basename, base the raw file's name.  A file's  *)
(* content is a term recording how it was computed (<<"raw", r>>,          *)
(* <<"stc", slice_order, c>>, <<"mc", c>>, <<"smooth", fwhm, c>>), so two  *)
(* contents are equal exactly when they were computed the same way.  An    *)
(* affine is an integer (a 1-D translation); spm_matrix(q) = q and         *)
(* lstsq(M, A)[0] = A - M, the solution X of M + X = A.                    *)
(***************************************************************************)
EXTENDS Integers, Sequences, FiniteSets, TLC

VARIABLES subject_data, cfg, fs, cache, inv

vars == <<subject_data, cfg, fs, cache, inv>>

(* Number of functional runs of the subject is 1..MaxRuns. *)
MaxRuns == 2

(* the affine shifts tried for the anatomical image and its estimate *)
MaxShift == 2

(* n_sessions default of do_subject_preproc. *)
NSessions == 1

None == "None"
NoPath == <<>>
Invocations == {1, 2}

---------------------------------------------------------------------------
(* Paths and the file helpers of coreutils.io_utils *)

DataDir == <<"spm_auditory">>
OutputDir == <<"single_subject_pipeline_runs", "sub001">>

Join(dir, name) == IF name = "" THEN dir ELSE Append(dir, name)

Basename(p) == <<p[2], p[3]>>

(* _save_vol / _save_vols: the file lands in output_dir under prefix+basename *)
SavePath(dir, prefix, basename) == <<dir, prefix \o basename[1], basename[2]>>

Write(f, files) == [p \in DOMAIN files \cup DOMAIN f |->
                      IF p \in DOMAIN files THEN files[p] ELSE f[p]]

NoFiles == [p \in {} |-> None]

OneFile(p, c) == [q \in {p} |-> c]

RawFunc(r) == <<DataDir, <<>>, IF r = 1 THEN "fM00223_1" ELSE IF r = 2 THEN "fM00223_2" ELSE "fM00223_3">>
RawAnat == <<DataDir, <<>>, "sM00223">>

Subject(n) == [subject_id |-> "sub001",
               func |-> [r \in 1..n |-> RawFunc(r)],
               anat |-> RawAnat,
               output_dir |-> OutputDir]

InitialFiles(n) == [p \in {RawFunc(r) : r \in 1..n} \cup {RawAnat} |->
                      IF p = RawAnat THEN <<"anat", "T1", 0>>
                      ELSE <<"raw", CHOOSE r \in 1..n : RawFunc(r) = p>>]

---------------------------------------------------------------------------
(* Configurations: the keyword arguments of do_subject_preproc *)

Defaults == [do_stc |-> TRUE, slice_order |-> "ascending", ref_slice |-> 0,
             do_mc |-> TRUE, reg_motion |-> TRUE, do_coreg |-> TRUE,
             fwhm |-> None, stats_output_dir_basename |-> ""]

(* the pipelines the driver generates *)
FactoryConfigs ==
  {[Defaults EXCEPT !.do_stc = s, !.do_mc = m, !.reg_motion = g, !.fwhm = w] :
     s \in BOOLEAN, m \in BOOLEAN, g \in BOOLEAN, w \in {None, "5mm"}}

(* the same call again, or with one keyword argument changed *)
Variants(c) ==
  {c}
  \cup {[c EXCEPT !.do_stc = ~@], [c EXCEPT !.do_mc = ~@],
        [c EXCEPT !.reg_motion = ~@], [c EXCEPT !.do_coreg = ~@]}
  \cup {[c EXCEPT !.slice_order = "descending"], [c EXCEPT !.ref_slice = 1],
        [c EXCEPT !.stats_output_dir_basename = "_other"]}
  \cup {[c EXCEPT !.fwhm = w] : w \in {None, "5mm", "8mm", "5mm_x_5mm"}}

(* "...%smm x %smm x %smm..." % tuple(fwhm) needs three elements *)
ValidKernel(fwhm) == fwhm \in {"5mm", "8mm"}

---------------------------------------------------------------------------
(* joblib.Memory: mem.cache(f)(args)                                       *)
(* e is the part of the state one stage threads through its calls:         *)
(* [fs, cache, hits, misses, stale, written].                              *)

Env(i) == [fs |-> fs, cache |-> cache, hits |-> inv[i].hits,
           misses |-> inv[i].misses, stale |-> inv[i].stale,
           written |-> inv[i].written]

IsHit(e, key) == key \in DOMAIN e.cache

(* On a miss the function runs: its value is stored and its files are      *)
(* written.  On a hit the stored value is returned and nothing is written; *)
(* the hit is stale when a call made now would have given something else.  *)
Memo(e, key, value, files) ==
  IF IsHit(e, key)
  THEN [e EXCEPT !.hits = @ \cup {key},
                 !.stale = IF e.cache[key] = value
                              /\ \A p \in DOMAIN files :
                                    p \in DOMAIN e.fs /\ e.fs[p] = files[p]
                           THEN @ ELSE @ \cup {key[1]}]
  ELSE [e EXCEPT !.misses = @ \cup {key},
                 !.cache = [k \in DOMAIN @ \cup {key} |->
                              IF k = key THEN value ELSE @[k]],
                 !.fs = Write(@, files),
                 !.written = @ \cup DOMAIN files]

(* a write outside the cache (_save_vol, _save_vols, nibabel.save) *)
Save(e, files) == [e EXCEPT !.fs = Write(@, files),
                            !.written = @ \cup DOMAIN files]

---------------------------------------------------------------------------
(* Slice-timing correction *)

(* mutant: the key takes the whole configuration *)
StcFitKeyWholeConfig(c, func) == <<"stc_fit", c, FALSE, func>>

StcFitKey(c, func) == <<"stc_fit", c.slice_order, FALSE, func>>

StcFit(c, func, f) == [slice_order |-> c.slice_order, raw_data |-> func,
                       data |-> f[func]]

StcTransformKey(fmristc, dir) == <<"stc_transform", fmristc, dir>>

StcTransformPath(fmristc, dir) == SavePath(dir, <<"a">>, Basename(fmristc.raw_data))

StcTransformData(fmristc) == <<"stc", fmristc.slice_order, fmristc.data>>

(* the loop over output['func']; call number failAt raises (0: none does). *)
(* A call that hits the cache does not run, so it cannot raise.            *)
RECURSIVE StcLoop(_, _, _, _, _)
StcLoop(e, c, funcs, r, failAt) ==
  IF r > Len(funcs) THEN [e |-> e, out |-> <<>>, ok |-> TRUE]
  ELSE
    LET k1 == StcFitKey(c, funcs[r]) IN
    IF failAt = 2 * r - 1 /\ ~IsHit(e, k1) THEN [e |-> e, out |-> <<>>, ok |-> FALSE]
    ELSE
      LET e1 == Memo(e, k1, StcFit(c, funcs[r], e.fs), NoFiles)
          fmristc == e1.cache[k1]
          k2 == StcTransformKey(fmristc, OutputDir)
      IN
      IF failAt = 2 * r /\ ~IsHit(e1, k2) THEN [e |-> e1, out |-> <<>>, ok |-> FALSE]
      ELSE
        LET p == StcTransformPath(fmristc, OutputDir)
            e2 == Memo(e1, k2, p, OneFile(p, StcTransformData(fmristc)))
            rest == StcLoop(e2, c, funcs, r + 1, failAt)
        IN [e |-> rest.e, out |-> <<e2.cache[k2]>> \o rest.out, ok |-> rest.ok]

---------------------------------------------------------------------------
(* Coregistration *)

CoregKey(vol, anat) == <<"spm_coreg", vol, anat>>

(* estimated parameters: some non-identity value that depends on the data *)
SpmCoreg(vol, anatData) ==
  IF vol[1] = "raw" THEN 1
  ELSE IF vol[1] = "stc" /\ vol[2] = "ascending" THEN 2 ELSE 3

SpmMatrix(q) == q

(* mutant: the affine is left as it was *)
LstsqKeepsAffine(M, A) == A
(* mutant: the matrix is applied to the affine, not solved for *)
LstsqApplies(M, A) == A + M

Lstsq(M, A) == A - M

LoadSpecificVol(f, func) == f[func]

(* mutant: the coregistered volume is saved over the one it was read from *)
CoregSaveInPlace(anat) == anat

(* _save_vol(..., subject_data['output_dir'], basenames=basename(anat)) *)
CoregSavePath(anat) == SavePath(OutputDir, <<>>, Basename(anat))

---------------------------------------------------------------------------
(* Motion correction *)

McFitKey(n_sessions, funcs) == <<"mc_fit", n_sessions, funcs>>

McFit(n_sessions, funcs, f) == [n_sessions |-> n_sessions, files |-> funcs,
                                data |-> [r \in DOMAIN funcs |-> f[funcs[r]]]]

McTransformKey(mrimc, dir, reslice) == <<"mc_transform", mrimc, dir, reslice>>

McTransformOutput(mrimc, dir) ==
  [realigned_files |-> [r \in DOMAIN mrimc.files |->
                          SavePath(dir, <<"r">>, Basename(mrimc.files[r]))],
   realignment_parameters |-> [r \in 1..mrimc.n_sessions |->
                          SavePath(dir, <<"rp_">>, Basename(mrimc.files[r]))]]

McTransformFiles(mrimc, dir) ==
  LET o == McTransformOutput(mrimc, dir) IN
  [p \in {o.realigned_files[r] : r \in DOMAIN o.realigned_files}
         \cup {o.realignment_parameters[r] : r \in DOMAIN o.realignment_parameters} |->
     IF \E r \in DOMAIN o.realigned_files : o.realigned_files[r] = p
     THEN <<"mc", mrimc.data[CHOOSE r \in DOMAIN o.realigned_files : o.realigned_files[r] = p]>>
     ELSE <<"rp", mrimc.data[CHOOSE r \in DOMAIN o.realignment_parameters : o.realignment_parameters[r] = p]>>]

---------------------------------------------------------------------------
(* Smoothing *)

(* mutant: the smoothing extent is left out of the key *)
SmoothKeyWithoutFwhm(func, fwhm) == <<"smooth_image", func>>

SmoothKey(func, fwhm) == <<"smooth_image", func, fwhm>>

SmoothImage(func, fwhm, f) == <<"smooth", fwhm, f[func]>>

GetBasenames(func) == Basename(func)

SmoothPath(funcs) == SavePath(OutputDir, <<"s">>, GetBasenames(funcs[1]))

(* the loop over output['func']; smooth_image call number failAt raises *)
RECURSIVE SmoothLoop(_, _, _, _, _)
SmoothLoop(e, c, funcs, r, failAt) ==
  IF r > Len(funcs) THEN [e |-> e, out |-> <<>>, ok |-> TRUE]
  ELSE
    LET k == SmoothKey(funcs[r], c.fwhm) IN
    IF failAt = r /\ ~IsHit(e, k) THEN [e |-> e, out |-> <<>>, ok |-> FALSE]
    ELSE
      LET e1 == Memo(e, k, SmoothImage(funcs[r], c.fwhm, e.fs), NoFiles)
          p == SmoothPath(funcs)
          e2 == Save(e1, OneFile(p, e1.cache[k]))
          rest == SmoothLoop(e2, c, funcs, r + 1, failAt)
      IN [e |-> rest.e, out |-> <<p>> \o rest.out, ok |-> rest.ok]

---------------------------------------------------------------------------
(* GLM: paradigm, design matrix and contrasts *)

tr == 7
n_scans == 96
Duration == 6
epoch_duration == Duration * tr
hfcut == 2 * 2 * epoch_duration

(* conditions = ['rest', 'active'] * 8 *)
conditions == [k \in 1..16 |-> IF k % 2 = 1 THEN "rest" ELSE "active"]

(* paradigm.n_conditions: the number of distinct condition labels *)
n_conditions == Cardinality({conditions[k] : k \in DOMAIN conditions})

(* make_dmtx: per condition (in sorted order) its regressor and its        *)
(* derivative, then the additional regressors, then the cosine drifts and  *)
(* the constant.                                                           *)
ConditionNames == <<"active", "active_derivative", "rest", "rest_derivative">>
RegNames == <<"reg0", "reg1", "reg2", "reg3", "reg4", "reg5">>
DriftLabels == <<"drift_1", "drift_2", "drift_3", "drift_4", "drift_5",
                 "drift_6", "drift_7", "drift_8", "drift_9">>
DriftOrder == (2 * n_scans * tr) \div hfcut

DesignNames(add_regs) ==
  ConditionNames
  \o (IF add_regs = None THEN <<>> ELSE RegNames)
  \o SubSeq(DriftLabels, 1, DriftOrder - 1)
  \o <<"constant">>
(* mutant: a row with one entry too many *)
EyeOneTooLong(n_columns, j) == [k \in 1..(n_columns + 1) |-> IF k = j + 1 THEN 1 ELSE 0]

(* mutant: the row after the one asked for *)
EyeOffByOne(n_columns, j) == [k \in 1..n_columns |-> IF k = j + 2 THEN 1 ELSE 0]

(* np.eye(n_columns)[j], columns counted from 0 *)
Eye(n_columns, j) == [k \in 1..n_columns |-> IF k = j + 1 THEN 1 ELSE 0]

(* contrasts[names[2 * i]] = eye[2 * i]; then 'active-rest' *)
Contrasts(names) ==
  LET n_columns == Len(names)
      main == [id \in {names[2 * i + 1] : i \in 0..(n_conditions - 1)} |->
                 Eye(n_columns,
                     CHOOSE j \in {2 * i : i \in 0..(n_conditions - 1)} :
                        names[j + 1] = id)]
  IN [id \in DOMAIN main \cup {"active-rest"} |->
        IF id = "active-rest"
        THEN [k \in 1..n_columns |-> main["active"][k] - main["rest"][k]]
        ELSE main[id]]

MapTypes == <<"z", "t", "effects", "variance">>

StatsDir(c) == Join(OutputDir, c.stats_output_dir_basename)
(* mutant: the file name does not carry the contrast *)
MapPathNoContrast(c, dtype, contrast_id) == <<Append(StatsDir(c), dtype), <<>>, "map">>

(* <stats_output_dir>/<dtype>_maps/<contrast_id>.nii.gz *)
MapPath(c, dtype, contrast_id) == <<Append(StatsDir(c), dtype), <<>>, contrast_id>>

StatsFile(c, name) == <<StatsDir(c), <<>>, name>>

(* the maps of one contrast, the first k of them *)
MapFiles(c, contrast_id, vec, data, k) ==
  [p \in {MapPath(c, MapTypes[j], contrast_id) : j \in 1..k} |->
     <<"map", vec, data>>]

---------------------------------------------------------------------------
(* The state *)

Idle == [pc |-> "idle",
         output |-> [func |-> <<>>, anat |-> NoPath, realignment_parameters |-> NoPath],
         add_regs |-> None,
         hits |-> {}, misses |-> {}, stale |-> {}, written |-> {},
         log |-> <<>>, io |-> <<>>,
         design_names |-> <<>>, contrasts |-> [id \in {} |-> <<>>],
         glm_data |-> None, fits |-> 0,
         extracted |-> {}, z_maps |-> [id \in {} |-> NoPath],
         failed_at |-> None,
         report |-> None, returned |-> "nothing", artifacts |-> None]

Init ==
  /\ \E n \in 1..MaxRuns :
       /\ subject_data = Subject(n)
       /\ fs = InitialFiles(n)
  /\ \E c1 \in FactoryConfigs : \E c2 \in Variants(c1) : cfg = <<c1, c2>>
  /\ cache = [k \in {} |-> None]
  /\ inv = [i \in Invocations |-> Idle]

Finished(i) == inv[i].pc \in {"done", "failed"}

(* A collaborator may raise; at most one invocation of the two fails. *)
FailPoints(n) == IF \E j \in Invocations : inv[j].pc = "failed" THEN {0} ELSE 0..n
(* mutant: output is the subject's dictionary itself, not a new one *)
CommitAliased(i, e, rec) ==
  /\ fs' = e.fs
  /\ cache' = e.cache
  /\ inv' = [inv EXCEPT ![i] = [rec EXCEPT !.hits = e.hits, !.misses = e.misses,
                                           !.stale = e.stale, !.written = e.written]]
  /\ subject_data' = [subject_data EXCEPT !.func = rec.output.func,
                                          !.anat = rec.output.anat]
  /\ UNCHANGED cfg

Commit(i, e, rec) ==
  /\ fs' = e.fs
  /\ cache' = e.cache
  /\ inv' = [inv EXCEPT ![i] = [rec EXCEPT !.hits = e.hits, !.misses = e.misses,
                                           !.stale = e.stale, !.written = e.written]]
  /\ UNCHANGED <<subject_data, cfg>>

(* mutant: the exception is swallowed and the statistics go on *)
RaiseAndContinue(rec, where) == [rec EXCEPT !.pc = "glm", !.failed_at = where]

Raise(rec, where) == [rec EXCEPT !.pc = "failed", !.failed_at = where]

(* mutant: a stage reads the subject's raw references *)
StageInputRaw(i) == subject_data.func

(* output['func'], the functional references a stage starts from *)
StageInput(i) == inv[i].output.func

(* mutant: the regressors are loaded whatever reg_motion says *)
AddRegsAlways(c, f, rp) == f[rp]

(* if reg_motion: add_regs = np.loadtxt(output['realignment_parameters']) *)
AddRegs(c, f, rp) == IF c.reg_motion THEN f[rp] ELSE None

(* mutant: the z map of every contrast is collected *)
CollectsEveryZMap(contrast_id, dtype) == dtype = "z"

(* if contrast_id == 'active-rest' and dtype == "z" *)
CollectsZMap(contrast_id, dtype) == contrast_id = "active-rest" /\ dtype = "z"

(* ghost: what a step took and what it left in output['func'] *)
Io(rec, stage, input, output) ==
  [rec EXCEPT !.io = Append(@, [stage |-> stage, input |-> input, output |-> output])]

---------------------------------------------------------------------------
(* do_subject_preproc, stage by stage *)

(* lines 63-76: the output bundle starts as the subject's raw references *)
Enter(i) ==
  /\ inv[i].pc = "idle"
  /\ \A j \in Invocations : j < i => Finished(j)
  /\ Commit(i, Env(i),
            [inv[i] EXCEPT !.pc = "stc",
                           !.output = [func |-> subject_data.func,
                                       anat |-> subject_data.anat,
                                       realignment_parameters |-> NoPath],
                           !.add_regs = None])

Stc(i) ==
  /\ inv[i].pc = "stc"
  /\ \E failAt \in FailPoints(2 * Len(StageInput(i))) :
       IF cfg[i].do_stc
       THEN LET r == StcLoop(Env(i), cfg[i], StageInput(i), 1, failAt)
                rec == [inv[i] EXCEPT !.log = Append(@, "stc")]
            IN IF r.ok
               THEN Commit(i, r.e, [Io(rec, "stc", StageInput(i), r.out)
                                      EXCEPT !.pc = "coreg", !.output.func = r.out])
               ELSE Commit(i, r.e, Raise(rec, "stc"))
       ELSE Commit(i, Env(i), [inv[i] EXCEPT !.pc = "coreg"])

Coreg(i) ==
  /\ inv[i].pc = "coreg"
  /\ \E failAt \in FailPoints(1) :
       LET e == Env(i)
           out == inv[i].output
           vol == LoadSpecificVol(e.fs, StageInput(i)[1])
           k == CoregKey(vol, out.anat)
           rec == [inv[i] EXCEPT !.log = Append(@, "coreg")]
       IN IF failAt = 1 /\ ~IsHit(e, k)
          THEN Commit(i, e, Raise(rec, "coreg"))
          ELSE LET e1 == Memo(e, k, SpmCoreg(vol, e.fs[out.anat]), NoFiles)
                   q0 == e1.cache[k]
                   M == SpmMatrix(q0)
                   anat == e1.fs[out.anat]
                   p == CoregSavePath(out.anat)
                   e2 == Save(e1, OneFile(p, <<"anat", anat[2], Lstsq(M, anat[3])>>))
               IN Commit(i, e2, [Io(rec, "coreg", StageInput(i), out.func)
                                   EXCEPT !.pc = "mc", !.output.anat = p])

Mc(i) ==
  /\ inv[i].pc = "mc"
  /\ \E failAt \in FailPoints(2) :
       IF cfg[i].do_mc
       THEN LET e == Env(i)
                k1 == McFitKey(NSessions, StageInput(i))
                rec == [inv[i] EXCEPT !.log = Append(@, "mc")]
            IN IF failAt = 1 /\ ~IsHit(e, k1)
               THEN Commit(i, e, Raise(rec, "mc"))
               ELSE LET e1 == Memo(e, k1, McFit(NSessions, StageInput(i), e.fs), NoFiles)
                        mrimc == e1.cache[k1]
                        k2 == McTransformKey(mrimc, OutputDir, TRUE)
                    IN IF failAt = 2 /\ ~IsHit(e1, k2)
                       THEN Commit(i, e1, Raise(rec, "mc"))
                       ELSE LET e2 == Memo(e1, k2, McTransformOutput(mrimc, OutputDir),
                                           McTransformFiles(mrimc, OutputDir))
                                mrimc_output == e2.cache[k2]
                                rp == mrimc_output.realignment_parameters[1]
                            IN Commit(i, e2,
                                 [Io(rec, "mc", StageInput(i), mrimc_output.realigned_files)
                                    EXCEPT !.pc = "smooth",
                                           !.output.func = mrimc_output.realigned_files,
                                           !.output.realignment_parameters = rp,
                                           !.add_regs = AddRegs(cfg[i], e2.fs, rp)])
       ELSE Commit(i, Env(i), [inv[i] EXCEPT !.pc = "smooth"])

Smooth(i) ==
  /\ inv[i].pc = "smooth"
  /\ \E failAt \in FailPoints(Len(StageInput(i))) :
       IF cfg[i].fwhm # None
       THEN LET r == SmoothLoop(Env(i), cfg[i], StageInput(i), 1, failAt)
                rec == [inv[i] EXCEPT !.log = Append(@, "smooth")]
            IN IF ~ValidKernel(cfg[i].fwhm)
               THEN Commit(i, Env(i), Raise(rec, "smooth"))
               ELSE IF r.ok
               THEN Commit(i, r.e, [Io(rec, "smooth", StageInput(i), r.out)
                                      EXCEPT !.pc = "glm", !.output.func = r.out])
               ELSE Commit(i, r.e, Raise(rec, "smooth"))
       ELSE Commit(i, Env(i), [inv[i] EXCEPT !.pc = "glm"])

(* lines 149-212: design matrix, contrasts, the fit, the mask *)
Glm(i) ==
  /\ inv[i].pc = "glm"
  /\ \E failAt \in FailPoints(1) :
       LET c == cfg[i]
           names == DesignNames(inv[i].add_regs)
           e1 == Save(Env(i), OneFile(StatsFile(c, "design_matrix.png"), <<"dmtx", names>>))
           data == e1.fs[StageInput(i)[1]]
           rec == [Io(inv[i], "fit", StageInput(i), StageInput(i))
                     EXCEPT !.log = @ \o <<"design_matrix", "fit">>,
                                 !.design_names = names,
                                 !.contrasts = Contrasts(names),
                                 !.fits = @ + 1]
       IN IF failAt = 1
          THEN Commit(i, e1, Raise(rec, "fit"))
          ELSE Commit(i, Save(e1, OneFile(StatsFile(c, "mask.nii.gz"), <<"mask", data>>)),
                      [rec EXCEPT !.pc = "contrasts", !.glm_data = data])

(* lines 216-244: one pass of the loop over contrasts.iteritems(), whose   *)
(* order is the dictionary's; the contrast call or a save may raise after  *)
(* k of the four maps are on disk.                                         *)
Contrast(i) ==
  /\ inv[i].pc = "contrasts"
  /\ \E contrast_id \in DOMAIN inv[i].contrasts \ inv[i].extracted :
     \E failAt \in FailPoints(Len(MapTypes)) :
       LET c == cfg[i]
           k == IF failAt = 0 THEN Len(MapTypes) ELSE failAt - 1
           e1 == Save(Env(i), MapFiles(c, contrast_id, inv[i].contrasts[contrast_id],
                                       inv[i].glm_data, k))
           rec == [inv[i] EXCEPT !.log = Append(@, "contrast")]
           z_maps == IF k >= 1 /\ CollectsZMap(contrast_id, MapTypes[1])
                     THEN [id \in DOMAIN inv[i].z_maps \cup {contrast_id} |->
                             MapPath(c, "z", id)]
                     ELSE inv[i].z_maps
       IN IF failAt # 0
          THEN Commit(i, e1, Raise([rec EXCEPT !.z_maps = z_maps], contrast_id))
          ELSE Commit(i, e1,
                 [rec EXCEPT !.extracted = @ \cup {contrast_id},
                             !.z_maps = z_maps,
                             !.pc = IF inv[i].extracted \cup {contrast_id}
                                       = DOMAIN inv[i].contrasts
                                    THEN "report" ELSE "contrasts"])

(* lines 247-272: the report gets the contrasts that have a z map; the     *)
(* function then ends without a return statement                           *)
Report(i) ==
  /\ inv[i].pc = "report"
  /\ LET c == cfg[i]
         contrasts == [id \in DOMAIN inv[i].z_maps |-> inv[i].contrasts[id]]
         e1 == Save(Env(i), OneFile(StatsFile(c, "report_stats.html"),
                                    <<"report", DOMAIN contrasts>>))
     IN Commit(i, e1,
          [inv[i] EXCEPT !.pc = "done",
                         !.log = Append(@, "report"),
                         !.contrasts = contrasts,
                         !.report = [contrasts |-> contrasts, z_maps |-> inv[i].z_maps],
                         !.returned = None,
                         !.artifacts = e1.fs])

Next == \E i \in Invocations :
          \/ Enter(i) \/ Stc(i) \/ Coreg(i) \/ Mc(i) \/ Smooth(i)
          \/ Glm(i) \/ Contrast(i) \/ Report(i)

Spec == Init /\ [][Next]_vars

---------------------------------------------------------------------------
(* Vocabulary of the properties *)
(* The same program, started on an anatomical image with some affine and   *)
(* a cache directory that holds the coregistration estimate of an earlier  *)
(* run on the same raw data.                                               *)
InitAffine ==
  /\ \E n \in 1..MaxRuns :
       /\ subject_data = Subject(n)
       /\ \E A \in (-MaxShift)..MaxShift :
            fs = Write(InitialFiles(n), OneFile(RawAnat, <<"anat", "T1", A>>))
  /\ \E c1 \in {c \in FactoryConfigs : ~c.do_stc /\ c.reg_motion /\ c.fwhm = None} :
     \E c2 \in {c1, [c1 EXCEPT !.do_mc = ~@]} : cfg = <<c1, c2>>
  /\ \E q \in (-MaxShift)..MaxShift :
       cache = [k \in {CoregKey(<<"raw", 1>>, RawAnat)} |-> q]
  /\ inv = [i \in Invocations |-> Idle]

SpecAffine == InitAffine /\ [][Next]_vars

Done(i) == inv[i].pc = "done"

PreprocStages == {"stc", "coreg", "mc", "smooth"}

(* the four preprocessing stages are behind invocation i *)
PreprocDone(i) ==
  \/ inv[i].pc \in {"glm", "contrasts", "report", "done"}
  \/ inv[i].pc = "failed" /\ inv[i].failed_at \notin PreprocStages

Logged(i, step) == \E n \in DOMAIN inv[i].log : inv[i].log[n] = step

MissTags(i) == {k[1] : k \in inv[i].misses}
HitTags(i) == {k[1] : k \in inv[i].hits}
Used(i) == inv[i].hits \cup inv[i].misses

OnlyFwhmDiffers ==
  /\ cfg[1].fwhm # cfg[2].fwhm
  /\ cfg[2] = [cfg[1] EXCEPT !.fwhm = cfg[2].fwhm]

OnlySliceOrderDiffers ==
  /\ cfg[1].slice_order # cfg[2].slice_order
  /\ cfg[2] = [cfg[1] EXCEPT !.slice_order = cfg[2].slice_order]

OnlyRefSliceDiffers ==
  /\ cfg[1].ref_slice # cfg[2].ref_slice
  /\ cfg[2] = [cfg[1] EXCEPT !.ref_slice = cfg[2].ref_slice]

(* the cached functions of the enabled stages from slice timing on *)
FromStc(c) ==
  {"stc_fit", "stc_transform", "spm_coreg"}
  \cup (IF c.do_mc THEN {"mc_fit", "mc_transform"} ELSE {})
  \cup (IF c.fwhm # None THEN {"smooth_image"} ELSE {})

IsMapPath(c, p) == \E j \in DOMAIN MapTypes : p[1] = Append(StatsDir(c), MapTypes[j])

ContrastIds == {"rest", "active", "active-rest"}

---------------------------------------------------------------------------
(* C1: when the second invocation differs from a completed first one only  *)
(* in fwhm, it never misses the cache for the slice-timing fit/transform,   *)
(* spm_coreg or the motion-correction fit/transform; the only cached        *)
(* function it recomputes is smooth_image, and it does recompute it when    *)
(* smoothing is enabled.                                                    *)
C1_OnlySmoothingRecomputed ==
  (Done(1) /\ OnlyFwhmDiffers) =>
     /\ MissTags(2) \subseteq {"smooth_image"}
     /\ (Done(2) /\ cfg[2].fwhm # None) => "smooth_image" \in MissTags(2)

C1_Witness ==
  /\ Done(1) /\ Done(2) /\ OnlyFwhmDiffers
  /\ cfg[1].do_stc /\ cfg[1].do_mc /\ cfg[1].fwhm = "5mm" /\ cfg[2].fwhm = "8mm"
  /\ HitTags(2) = {"stc_fit", "stc_transform", "spm_coreg", "mc_fit", "mc_transform"}
  /\ MissTags(2) = {"smooth_image"}

(* C2: when the second invocation differs from a completed first one in     *)
(* exactly one stage parameter (slice_order or ref_slice of slice timing,   *)
(* or fwhm), it misses the cache for the changed stage and for every        *)
(* enabled stage after it, hits for every stage before it, and no hit       *)
(* returns a result computed from the old upstream output.                  *)
C2_ChangedStageAndDownstreamRecomputed ==
  (Done(1) /\ Done(2)) =>
     /\ (cfg[1].do_stc /\ (OnlySliceOrderDiffers \/ OnlyRefSliceDiffers)) =>
           (MissTags(2) = FromStc(cfg[2]) /\ inv[2].stale = {})
     /\ (OnlyFwhmDiffers /\ cfg[2].fwhm # None) =>
           (MissTags(2) = {"smooth_image"} /\ inv[2].stale = {})

(* C3: re-invoking with the configuration of a completed first invocation   *)
(* misses the cache for no cached function and ends with the same output    *)
(* references and the same file contents.                                   *)
C3_WarmRerunIsIdentical ==
  (Done(1) /\ cfg[1] = cfg[2]) =>
     /\ inv[2].misses = {}
     /\ Done(2) => /\ inv[2].output = inv[1].output
                   /\ inv[2].artifacts = inv[1].artifacts

C3_Witness ==
  /\ Done(1) /\ Done(2) /\ cfg[1] = cfg[2]
  /\ cfg[1].do_stc /\ cfg[1].do_mc /\ cfg[1].fwhm # None
  /\ Len(subject_data.func) = 2
  /\ HitTags(2) = FromStc(cfg[1])

C5_EveryStageSkippable ==
  \A i \in Invocations :
    PreprocDone(i) =>
       /\ ~cfg[i].do_stc => ~Logged(i, "stc")
       /\ ~cfg[i].do_mc => ~Logged(i, "mc")
       /\ cfg[i].fwhm = None => ~Logged(i, "smooth")
       /\ ~cfg[i].do_coreg => (~Logged(i, "coreg")
                                /\ inv[i].output.anat = subject_data.anat)

(* C6: an invocation in which a preprocessing stage failed stops there: no  *)
(* later stage is logged, the GLM is never fitted, it writes no statistical *)
(* map and no report; the cache entries it wrote stay in the cache and are  *)
(* hits when the same configuration runs again.                             *)
C6_FailureAbortsAndKeepsCache ==
  \A i \in Invocations :
    inv[i].failed_at \in PreprocStages =>
       /\ inv[i].pc = "failed"
       /\ inv[i].log[Len(inv[i].log)] = inv[i].failed_at
       /\ inv[i].fits = 0
       /\ inv[i].report = None
       /\ \A p \in inv[i].written :
             ~IsMapPath(cfg[i], p) /\ p # StatsFile(cfg[i], "report_stats.html")
       /\ inv[i].misses \subseteq DOMAIN cache
       /\ (i = 1 /\ cfg[2] = cfg[1] /\ PreprocDone(2)) =>
             inv[1].misses \subseteq inv[2].hits

C6_Witness ==
  /\ inv[1].failed_at = "mc" /\ cfg[2] = cfg[1] /\ Done(2)
  /\ "mc_fit" \in MissTags(1) /\ "stc_transform" \in MissTags(1)
  /\ inv[1].misses # {} /\ inv[1].misses \subseteq inv[2].hits

(* C7: when extracting or saving the maps of one contrast fails, every      *)
(* other contrast still ends the run with its four map files written.       *)
C7_OtherContrastsPersisted ==
  \A i \in Invocations :
    (inv[i].pc = "failed" /\ inv[i].failed_at \in ContrastIds) =>
       \A id \in ContrastIds \ {inv[i].failed_at} :
          \A j \in DOMAIN MapTypes :
             MapPath(cfg[i], MapTypes[j], id) \in inv[i].written

(* C8: two invocations for the same subject with different configurations   *)
(* never write the same file path.                                          *)
C8_DistinctConfigsDistinctPaths ==
  cfg[1] # cfg[2] => inv[1].written \cap inv[2].written = {}

(* C9 as stated: two invocations with different configurations never use    *)
(* the same cache key.                                                      *)
C9_DistinctConfigsDistinctKeys ==
  cfg[1] # cfg[2] => Used(1) \cap Used(2) = {}

(* C9 as amended: a cache key holds the cached function, that stage's own   *)
(* parameters and the call's inputs, so a key of a slice-timing call        *)
(* carries the invocation's slice_order, a key of a motion-correction fit   *)
(* its n_sessions and a key of a smoothing call its fwhm; a key that two    *)
(* invocations share belongs to a stage call whose parameters are the same  *)
(* in both.                                                                 *)
C9_KeysHoldStageParameters ==
  /\ \A i \in Invocations : \A k \in Used(i) :
       /\ k[1] = "stc_fit" => k[2] = cfg[i].slice_order
       /\ k[1] = "stc_transform" => k[2].slice_order = cfg[i].slice_order
       /\ k[1] = "mc_fit" => k[2] = NSessions
       /\ k[1] = "smooth_image" => (Len(k) = 3 /\ k[3] = cfg[i].fwhm)
  /\ \A k \in Used(1) \cap Used(2) :
       /\ k[1] \in {"stc_fit", "stc_transform"} =>
             cfg[1].slice_order = cfg[2].slice_order
       /\ k[1] = "smooth_image" => cfg[1].fwhm = cfg[2].fwhm

C9_Witness ==
  /\ cfg[1] # cfg[2] /\ Done(1) /\ Done(2)
  /\ cfg[1].fwhm # None /\ cfg[2].fwhm # None /\ cfg[1].fwhm # cfg[2].fwhm
  /\ \E k \in Used(1) \cap Used(2) : k[1] = "stc_fit"
  /\ \E k \in Used(2) : k[1] = "smooth_image" /\ k \notin Used(1)

(* C10: a successful invocation returns the output bundle (functional       *)
(* references, realignment parameters when motion correction ran, z-map     *)
(* paths) to its caller.                                                    *)
C10_ReturnsOutputBundle ==
  \A i \in Invocations :
    Done(i) =>
       /\ inv[i].returned # None
       /\ inv[i].returned.func = inv[i].output.func

---------------------------------------------------------------------------
(* Statistics *)

(* the statistical map files invocation i wrote *)
MapFilesWritten(i) == {p \in inv[i].written : IsMapPath(cfg[i], p)}

(* the labels of the paradigm's conditions *)
ConditionLabels == {conditions[k] : k \in DOMAIN conditions}

(* the column of the design matrix that carries a name *)
ColumnOf(names, name) == CHOOSE j \in DOMAIN names : names[j] = name

OneHot(vec, j) == \A k \in DOMAIN vec : vec[k] = (IF k = j THEN 1 ELSE 0)

AfterDesign(i) == inv[i].pc \in {"contrasts", "report"}

(* C11 as stated: a run whose contrast set of interest holds only           *)
(* "active-rest" (the set the report is given) writes exactly four          *)
(* statistical map files, none of them for another contrast.                *)
C11_OnlyRequestedContrastWritten ==
  \A i \in Invocations :
    (Done(i) /\ DOMAIN inv[i].report.contrasts = {"active-rest"}) =>
       /\ Cardinality(MapFilesWritten(i)) = Len(MapTypes)
       /\ MapFilesWritten(i) =
            {MapPath(cfg[i], MapTypes[j], "active-rest") : j \in DOMAIN MapTypes}

(* C11 amended: after a successful run the statistical map files written    *)
(* are exactly <stats_dir>/<t>_maps/<c>.nii.gz for the four map types t and *)
(* every contrast c the function builds (rest, active, active-rest): four   *)
(* files per contrast, twelve in all.                                       *)
C11_MapsOfEveryBuiltContrast ==
  \A i \in Invocations :
    inv[i].pc \in {"report", "done"} =>
       /\ MapFilesWritten(i) =
            {MapPath(cfg[i], MapTypes[j], id) :
               j \in DOMAIN MapTypes, id \in DOMAIN Contrasts(inv[i].design_names)}
       /\ DOMAIN Contrasts(inv[i].design_names) = ContrastIds
       /\ Cardinality(MapFilesWritten(i)) = Len(MapTypes) * Cardinality(ContrastIds)

C11_Witness ==
  /\ Done(1)
  /\ DOMAIN inv[1].report.contrasts = {"active-rest"}
  /\ Cardinality(MapFilesWritten(1)) = 12
  /\ MapPath(cfg[1], "variance", "rest") \in inv[1].written

(* C12: once the preprocessing is behind an invocation, add_regs is set     *)
(* exactly when do_mc and reg_motion are both on, the design matrix has the *)
(* motion columns exactly then, and with do_mc off the motion correction    *)
(* step raises nothing, whatever reg_motion says.                           *)
C12_MotionRegressorsIffMcAndRegMotion ==
  \A i \in Invocations :
    /\ inv[i].pc \in {"glm", "contrasts", "report", "done"} =>
         ((inv[i].add_regs # None) <=> (cfg[i].do_mc /\ cfg[i].reg_motion))
    /\ inv[i].pc \in {"contrasts", "report", "done"} =>
         ((\E k \in DOMAIN inv[i].design_names : inv[i].design_names[k] = RegNames[1])
            <=> (cfg[i].do_mc /\ cfg[i].reg_motion))
    /\ (inv[i].pc = "failed" /\ inv[i].failed_at = "mc") => cfg[i].do_mc

C12_Witness ==
  /\ Done(1) /\ cfg[1].do_mc /\ cfg[1].reg_motion /\ inv[1].add_regs # None
  /\ Done(2) /\ ~cfg[2].do_mc /\ cfg[2].reg_motion /\ inv[2].add_regs = None

(* C13: with or without nuisance regressors, the contrasts built are rest,  *)
(* active and active-rest, each as long as the design matrix has columns,   *)
(* and active-rest is the elementwise difference of active and rest.        *)
C13_ContrastVectorsFitDesign ==
  \A i \in Invocations :
    AfterDesign(i) =>
       LET v == inv[i].contrasts
           n == Len(inv[i].design_names)
       IN /\ DOMAIN v = ContrastIds
          /\ \A id \in DOMAIN v : DOMAIN v[id] = 1..n
          /\ \A k \in 1..n : k \in DOMAIN v["active"] /\ k \in DOMAIN v["rest"]
                             /\ v["active-rest"][k] = v["active"][k] - v["rest"][k]
          /\ n = Len(ConditionNames) + DriftOrder
                 + (IF inv[i].add_regs = None THEN 0 ELSE Len(RegNames))

C13_Witness ==
  /\ Done(1) /\ inv[1].add_regs = None /\ Len(inv[1].design_names) = 12
  /\ inv[2].pc = "contrasts" /\ inv[2].add_regs # None
  /\ Len(inv[2].contrasts["active-rest"]) = 18
  /\ inv[2].contrasts["active-rest"][1] = 1 /\ inv[2].contrasts["active-rest"][3] = -1

(* C14: the contrast stored under a condition's label is one-hot on the     *)
(* column of the design matrix named after that condition, that column has  *)
(* the same index with and without motion columns, and apart from           *)
(* active-rest no contrast has another name than a condition's label.       *)
C14_OneHotOnPrimaryColumn ==
  \A i \in Invocations :
    AfterDesign(i) =>
       /\ DOMAIN inv[i].contrasts \ {"active-rest"} = ConditionLabels
       /\ \A id \in ConditionLabels :
            /\ id \in DOMAIN inv[i].contrasts
            /\ OneHot(inv[i].contrasts[id], ColumnOf(inv[i].design_names, id))
            /\ ColumnOf(inv[i].design_names, id) = ColumnOf(DesignNames(None), id)

C14_Witness ==
  /\ Done(1) /\ inv[1].add_regs # None /\ inv[1].design_names[5] = RegNames[1]
  /\ inv[2].pc = "contrasts" /\ inv[2].add_regs = None
  /\ inv[2].design_names[5] = DriftLabels[1]
  /\ inv[2].contrasts["rest"][3] = 1 /\ inv[2].design_names[3] = "rest"

---------------------------------------------------------------------------
(* Errors and frame *)

InvalidKernel(c) == c.fwhm # None /\ ~ValidKernel(c.fwhm)

(* C15 as stated: a call whose fwhm is no three-element kernel fails        *)
(* before any stage ran: nothing was computed, cached or written.           *)
C15_StaticErrorBeforeAnyStage ==
  \A i \in Invocations :
    (inv[i].pc = "failed" /\ InvalidKernel(cfg[i]) /\ inv[i].failed_at = "smooth") =>
       /\ ~Logged(i, "stc") /\ ~Logged(i, "coreg") /\ ~Logged(i, "mc")
       /\ inv[i].misses = {}
       /\ inv[i].written = {}

(* C16: subject_data is at every moment what the caller built, the raw      *)
(* input files keep their content, and every invocation starts from the     *)
(* raw references.                                                          *)
C16_SubjectDataNeverMutated ==
  LET n == Len(subject_data.func)
  IN /\ subject_data = Subject(n)
     /\ \A p \in DOMAIN InitialFiles(n) : p \in DOMAIN fs /\ fs[p] = InitialFiles(n)[p]
     /\ \A i \in Invocations :
          inv[i].pc = "stc" => /\ inv[i].output.func = Subject(n).func
                               /\ inv[i].output.anat = Subject(n).anat

C16_Witness ==
  /\ Done(1) /\ cfg[1].do_stc /\ cfg[1].do_mc
  /\ inv[1].output.func # subject_data.func
  /\ inv[1].output.anat # subject_data.anat
  /\ inv[2].pc = "stc" /\ inv[2].output.func = subject_data.func

(* C17: after the coregistration step the saved anatomical volume has the   *)
(* voxel data of the input volume and the affine X that solves M X = A for  *)
(* the input affine A and the matrix M of the estimated parameters; with    *)
(* the identity parameters the affine is unchanged.                         *)
C17_AffineSolvesCoregMatrix ==
  \A i \in Invocations :
    inv[i].pc = "mc" =>
       LET old == fs[subject_data.anat]
           new == fs[inv[i].output.anat]
           q0 == cache[CoregKey(LoadSpecificVol(fs, StageInput(i)[1]), subject_data.anat)]
       IN /\ inv[i].output.anat # subject_data.anat
          /\ new[2] = old[2]
          /\ SpmMatrix(q0) + new[3] = old[3]
          /\ q0 = 0 => new[3] = old[3]

C17_Witness ==
  /\ inv[1].pc = "mc"
  /\ cache[CoregKey(<<"raw", 1>>, RawAnat)] = 0
  /\ fs[RawAnat][3] = MaxShift
  /\ fs[inv[1].output.anat][3] = MaxShift
  /\ inv[1].output.anat # RawAnat

---------------------------------------------------------------------------
(* Order of the steps *)

(* the steps of one call that runs to its end, in the order of the code *)
ExpectedLog(c) ==
  (IF c.do_stc THEN <<"stc">> ELSE <<>>)
  \o <<"coreg">>
  \o (IF c.do_mc THEN <<"mc">> ELSE <<>>)
  \o (IF c.fwhm # None THEN <<"smooth">> ELSE <<>>)
  \o <<"design_matrix", "fit">>
  \o [k \in 1..Cardinality(ContrastIds) |-> "contrast"]
  \o <<"report">>

IsPrefix(s, t) == Len(s) <= Len(t) /\ SubSeq(t, 1, Len(s)) = s

(* C18: the steps an invocation has taken are a prefix of STC, coreg, MC,   *)
(* smoothing, design matrix, fit, contrasts, report (enabled stages only);  *)
(* every step that takes functional references takes what the previous      *)
(* step left, the first one the raw input; the model is fitted at most      *)
(* once, and exactly once in a call that ends normally.                     *)
C18_StepsInOrderAndChained ==
  \A i \in Invocations :
    /\ IsPrefix(inv[i].log, ExpectedLog(cfg[i]))
    /\ Done(i) => inv[i].log = ExpectedLog(cfg[i])
    /\ \A k \in DOMAIN inv[i].io :
         inv[i].io[k].input = (IF k = 1 THEN subject_data.func
                               ELSE inv[i].io[k - 1].output)
    /\ inv[i].pc \notin {"idle", "failed"} =>
         inv[i].output.func = (IF inv[i].io = <<>> THEN subject_data.func
                               ELSE inv[i].io[Len(inv[i].io)].output)
    /\ inv[i].fits <= 1
    /\ inv[i].fits = Cardinality({k \in DOMAIN inv[i].log : inv[i].log[k] = "fit"})
    /\ Done(i) => inv[i].fits = 1
    /\ (i > 1 /\ inv[i].pc # "idle") => Finished(i - 1)

C18_Witness ==
  /\ Done(1) /\ cfg[1].do_stc /\ cfg[1].do_mc /\ cfg[1].fwhm # None
  /\ Len(inv[1].io) = 5
  /\ inv[1].io[1].input = subject_data.func
  /\ inv[1].io[1].output # inv[1].io[1].input
  /\ inv[1].io[3].stage = "mc" /\ inv[1].io[3].input = inv[1].io[1].output
  /\ inv[1].io[4].stage = "smooth" /\ inv[1].io[4].input = inv[1].io[3].output
  /\ inv[1].io[5].stage = "fit" /\ inv[1].io[5].input = inv[1].io[4].output
  /\ inv[1].fits = 1

(* C19: when the contrast loop has ended normally, the z maps kept, and     *)
(* the z maps and contrasts the report gets, have the single key            *)
(* "active-rest", while the four maps of each of rest, active and           *)
(* active-rest are on disk, written by this invocation.                     *)
C19_ReportGetsOnlyActiveRest ==
  \A i \in Invocations :
    /\ inv[i].pc \in {"report", "done"} =>
         /\ DOMAIN inv[i].z_maps = {"active-rest"}
         /\ inv[i].z_maps["active-rest"] = MapPath(cfg[i], "z", "active-rest")
         /\ \A id \in ContrastIds : \A j \in DOMAIN MapTypes :
              /\ MapPath(cfg[i], MapTypes[j], id) \in inv[i].written
              /\ MapPath(cfg[i], MapTypes[j], id) \in DOMAIN fs
    /\ Done(i) =>
         /\ DOMAIN inv[i].report.z_maps = {"active-rest"}
         /\ DOMAIN inv[i].report.contrasts = {"active-rest"}
         /\ inv[i].report.z_maps = inv[i].z_maps

C19_Witness ==
  /\ Done(2)
  /\ DOMAIN inv[2].report.z_maps = {"active-rest"}
  /\ DOMAIN inv[2].report.contrasts = {"active-rest"}
  /\ MapPath(cfg[2], "z", "rest") \in inv[2].written
  /\ MapPath(cfg[2], "t", "active") \in inv[2].written

(* C20: with two or more functional runs and smoothing on, the smoothed     *)
(* runs are saved under pairwise distinct paths and the output holds as     *)
(* many distinct functional references as the input.                        *)
C20_RunsSmoothedToDistinctPaths ==
  \A i \in Invocations :
    (/\ Len(subject_data.func) >= 2
     /\ ValidKernel(cfg[i].fwhm)
     /\ inv[i].pc \in {"glm", "contrasts", "report", "done"}) =>
       /\ Len(inv[i].output.func) = Len(subject_data.func)
       /\ \A r, s \in DOMAIN inv[i].output.func :
            r # s => inv[i].output.func[r] # inv[i].output.func[s]

====
